---- MODULE Spec2Model ----
(***************************************************************************)
(* Model of XMLToBusCSVConverter (src/xmltocsv.py): the record classifier, *)
(* the two flattening schemes, the field registry, the per-file loop of    *)
(* process_all_files and the CSV column order of save_to_csv.              *)
(*                                                                         *)
(* Strings are TLA+ strings, handled character by character (SubSeq, \o,   *)
(* Len), so that keys built by concatenation collide exactly when the      *)
(* Python strings collide.  An element is a record                         *)
(*   [tag, attrib, text, children]                                         *)
(* with attrib a sequence of <<name, value>> pairs in document order and   *)
(* text = "" standing for both None and the empty string (the code only    *)
(* tests the text for truthiness).  A dictionary is a function from keys   *)
(* to values; a row list is a sequence of dictionaries.                    *)
(***************************************************************************)
EXTENDS Integers, Sequences, FiniteSets, TLC

(***************************************************************************)
(* Python string primitives used by the converter.                         *)
(***************************************************************************)

\* The characters of the model's strings, in ascending code-point order.
CharOrder == " ./0123456789@ABCDEFGHIJKLMNOPQRSTUVWXYZ_abcdefghijklmnopqrstuvwxyz{}"

CharAt(s, i) == SubSeq(s, i, i)

\* ord(c), up to a monotone renumbering
Code(c) == CHOOSE i \in 1..Len(CharOrder) : CharAt(CharOrder, i) = c

\* c in s, for a single character c
Contains(s, c) == \E i \in 1..Len(s) : CharAt(s, i) = c

\* a < b on Python str: lexicographic by code point, a proper prefix is smaller
RECURSIVE StrLess(_, _)
StrLess(a, b) ==
    IF b = "" THEN FALSE
    ELSE IF a = "" THEN TRUE
    ELSE IF Head(a) = Head(b) THEN StrLess(Tail(a), Tail(b))
    ELSE Code(Head(a)) < Code(Head(b))

\* s.split(c): the pieces of s between the occurrences of the character c
RECURSIVE SplitFrom(_, _, _)
SplitFrom(s, c, piece) ==
    IF s = "" THEN <<piece>>
    ELSE IF Head(s) = c THEN <<piece>> \o SplitFrom(Tail(s), c, "")
    ELSE SplitFrom(Tail(s), c, piece \o Head(s))

Split(s, c) == SplitFrom(s, c, "")

\* s.strip(): leading and trailing whitespace removed
RECURSIVE LStrip(_)
LStrip(s) == IF s # "" /\ Head(s) = " " THEN LStrip(Tail(s)) ELSE s

RECURSIVE RStrip(_)
RStrip(s) ==
    IF s # "" /\ CharAt(s, Len(s)) = " " THEN RStrip(SubSeq(s, 1, Len(s) - 1)) ELSE s

StrStrip(s) == RStrip(LStrip(s))

\* s.startswith(p)
StartsWith(s, p) == Len(p) <= Len(s) /\ SubSeq(s, 1, Len(p)) = p

\* Path(filepath).name: the last component of the path
PathName(filepath) ==
    LET parts == Split(filepath, "/") IN parts[Len(parts)]

\* dict[key] = value on a dictionary d
DictSet(d, key, value) == (key :> value) @@ d

EmptyDict == << >>


\* left fold of Op over the sequence s, as a Python for loop over s
RECURSIVE FoldLeft(_, _, _)
FoldLeft(Op(_, _), acc, s) ==
    IF s = << >> THEN acc ELSE FoldLeft(Op, Op(acc, Head(s)), Tail(s))

(***************************************************************************)
(* PathNamer                                                               *)
(***************************************************************************)

\* _strip_namespace: '{uri}local' -> 'local'
StripNamespace(tag) ==
    IF Contains(tag, "}") THEN Split(tag, "}")[2] ELSE tag

\* _get_element_path
GetElementPath(element, parent_path) ==
    LET tag_clean == StripNamespace(element.tag)
    IN  IF parent_path # "" THEN parent_path \o "." \o tag_clean ELSE tag_clean

(***************************************************************************)
(* ElementFlattener, record-root mode.  The state threaded through the     *)
(* recursion is st = [record, field_names]: the dictionary being filled    *)
(* and the converter's field registry, both written by _flatten_element.   *)
(***************************************************************************)

\* SetField without "self.field_names.add(key)"
SetFieldUnregistered(st, key, value) ==
    [record |-> DictSet(st.record, key, value), field_names |-> st.field_names]

\* "record[key] = value" followed by "self.field_names.add(key)"
SetField(st, key, value) ==
    [record |-> DictSet(st.record, key, value), field_names |-> st.field_names \cup {key}]

\* the key of an attribute in _flatten_element; tag and attr are namespace-stripped
AttrKey(prefix, tag, attr) ==
    IF prefix # "" THEN prefix \o tag \o "_@" \o attr ELSE tag \o "_@" \o attr

\* the key of the text of an element in _flatten_element
TextKey(prefix, tag) == IF prefix # "" THEN prefix \o tag ELSE tag

\* ChildPrefix leaving the tag of the record root out of the prefix
ChildPrefixOmittingRoot(prefix, tag) == IF prefix # "" THEN prefix \o tag \o "_" ELSE ""

\* new_prefix of _flatten_element
ChildPrefix(prefix, tag) == IF prefix # "" THEN prefix \o tag \o "_" ELSE tag \o "_"

\* _flatten_element
RECURSIVE FlattenElement(_, _, _)
FlattenElement(element, st, prefix) ==
    LET tag == StripNamespace(element.tag)
        AddAttr(s, a) == SetField(s, AttrKey(prefix, tag, StripNamespace(a[1])), a[2])
        AddText(s) ==
            IF element.text # "" /\ StrStrip(element.text) # ""
            THEN SetField(s, TextKey(prefix, tag), StrStrip(element.text))
            ELSE s
        AddChild(s, child) == FlattenElement(child, s, ChildPrefix(prefix, tag))
    IN  FoldLeft(AddChild, AddText(FoldLeft(AddAttr, st, element.attrib)), element.children)

\* RecordOrEmpty keeping a record that holds the file name only
RecordKept(st) == st

\* "return record if len(record) > 1 else {}"
RecordOrEmpty(st) ==
    [record      |-> IF Cardinality(DOMAIN st.record) > 1 THEN st.record ELSE EmptyDict,
     field_names |-> st.field_names]

\* _element_to_record: [record, field_names]; record is empty when the element
\* gave nothing beyond the file name
ElementToRecord(element, filepath, field_names) ==
    RecordOrEmpty(
        FlattenElement(element,
                       [record      |-> DictSet(EmptyDict, "source_file", PathName(filepath)),
                        field_names |-> field_names],
                       ""))

(***************************************************************************)
(* Generic recursive flattening (fallback mode).  Here st.record is        *)
(* current_data.                                                           *)
(***************************************************************************)

\* the key of an attribute in _flatten_nested_records
NestedAttrKey(tag, attr) == tag \o ".@" \o attr

\* the key of the text of an element in _flatten_nested_records
NestedTextKey(tag) == tag \o ".value"

\* LeafRecords with the test inverted: "if not current_data"
LeafRecordsInverted(st) ==
    [records     |-> IF DOMAIN st.record = {} THEN <<st.record>> ELSE << >>,
     field_names |-> st.field_names]

\* "if current_data: records.append(current_data)" at a leaf
LeafRecords(st) ==
    [records     |-> IF DOMAIN st.record # {} THEN <<st.record>> ELSE << >>,
     field_names |-> st.field_names]

\* ExtendRecords with one mapping shared by the branches: the rows of a child also
\* hold what the sibling before it left in the mapping
ExtendRecordsLeaking(acc, r) ==
    [records     |-> acc.records \o
                        [i \in DOMAIN r.records |->
                            IF acc.records # << >>
                            THEN r.records[i] @@ acc.records[Len(acc.records)]
                            ELSE r.records[i]],
     field_names |-> r.field_names]

\* "records.extend(child_records)", the registry being the one the call left
ExtendRecords(acc, r) ==
    [records |-> acc.records \o r.records, field_names |-> r.field_names]

\* _flatten_nested_records: [records, field_names]
RECURSIVE FlattenNestedRecords(_, _, _, _)
FlattenNestedRecords(element, parent_path, parent_data, field_names) ==
    LET tag == StripNamespace(element.tag)
        AddAttr(s, a) == SetField(s, NestedAttrKey(tag, StripNamespace(a[1])), a[2])
        AddText(s) ==
            IF element.text # "" /\ StrStrip(element.text) # ""
            THEN SetField(s, NestedTextKey(tag), StrStrip(element.text))
            ELSE s
        children == element.children
        child_tags == {children[i].tag : i \in DOMAIN children}
        same_tag == Cardinality(child_tags) = 1
        Below(st) ==
            LET AddChild(acc, child) ==
                    ExtendRecords(acc,
                        FlattenNestedRecords(child, GetElementPath(element, parent_path),
                                             st.record, acc.field_names))
                start == [records |-> << >>, field_names |-> st.field_names]
            IN  IF children = << >> THEN LeafRecords(st)
                ELSE IF same_tag /\ Len(children) > 1
                     THEN FoldLeft(AddChild, start, children)
                     ELSE FoldLeft(AddChild, start, children)
    IN  Below(AddText(FoldLeft(AddAttr,
                               [record |-> parent_data, field_names |-> field_names],
                               element.attrib)))

(***************************************************************************)
(* RecordClassifier.  Every result carries the rows, the field registry    *)
(* after the call and the diagnostics printed during the call (log), which *)
(* tell which strategy examined what.                                      *)
(***************************************************************************)

\* a line printed by the converter
Printed(event, tag, count) == [event |-> event, tag |-> tag, count |-> count]

\* the elements strictly below element, in document order
RECURSIVE Descendants(_)
Descendants(element) ==
    LET Below(acc, child) == acc \o <<child>> \o Descendants(child)
    IN  FoldLeft(Below, << >>, element.children)

\* root.findall(f".//{pattern}"): the descendants whose tag is exactly pattern
FindAll(root, pattern) == SelectSeq(Descendants(root), LAMBDA e : e.tag = pattern)

\* AppendRecord without the test: an empty record is appended too
AppendRecordAlways(acc, r) ==
    [records |-> Append(acc.records, r.record), field_names |-> r.field_names]

\* "if record: records.append(record)"
AppendRecord(acc, r) ==
    [records     |-> IF DOMAIN r.record # {} THEN Append(acc.records, r.record)
                     ELSE acc.records,
     field_names |-> r.field_names]

\* the loop "for elem in elements: record = self._element_to_record(elem, filepath) ..."
RecordsOf(elements, filepath, field_names) ==
    LET Add(acc, elem) ==
            AppendRecord(acc, ElementToRecord(elem, filepath, acc.field_names))
    IN  FoldLeft(Add, [records |-> << >>, field_names |-> field_names], elements)

journey_patterns ==
    <<"Journey", "Leg", "Segment", "Connection", "Route", "Stop", "Station", "Transit">>

\* the result of a strategy: returned tells whether _extract_records_smart returns here
Outcome(returned, r, log) ==
    [returned |-> returned, records |-> r.records, field_names |-> r.field_names,
     log |-> log]

NoRecords(field_names) == [records |-> << >>, field_names |-> field_names]

\* SeveralOf asking for one match only
SeveralOfOne(elements) == elements # << >> /\ Len(elements) >= 1

\* "if elements and len(elements) > 1"
SeveralOf(elements) == elements # << >> /\ Len(elements) > 1

\* Strategy 1 of _extract_records_smart, from the i-th pattern on
RECURSIVE KnownTagScan(_, _, _, _, _)
KnownTagScan(root, filepath, i, field_names, log) ==
    IF i > Len(journey_patterns) THEN Outcome(FALSE, NoRecords(field_names), log)
    ELSE LET pattern == journey_patterns[i]
             Matched(elements) ==
                 LET Tried(r, log1) ==
                         IF r.records # << >> THEN Outcome(TRUE, r, log1)
                         ELSE KnownTagScan(root, filepath, i + 1, r.field_names, log1)
                 IN  IF SeveralOf(elements)
                     THEN Tried(RecordsOf(elements, filepath, field_names),
                                Append(log, Printed("found", pattern, Len(elements))))
                     ELSE KnownTagScan(root, filepath, i + 1, field_names, log)
         IN  Matched(FindAll(root, pattern))

\* Strategy 2 of _extract_records_smart, from the i-th child of root on
RECURSIVE NestedCollectionScan(_, _, _, _, _)
NestedCollectionScan(root, filepath, i, field_names, log) ==
    IF i > Len(root.children) THEN Outcome(FALSE, NoRecords(field_names), log)
    ELSE LET grandchildren == root.children[i].children
             gc_tags == {grandchildren[j].tag : j \in DOMAIN grandchildren}
             Tried(r, log1) ==
                 IF r.records # << >> THEN Outcome(TRUE, r, log1)
                 ELSE NestedCollectionScan(root, filepath, i + 1, r.field_names, log1)
         IN  IF grandchildren # << >> /\ Cardinality(gc_tags) = 1 /\ Len(grandchildren) > 1
             THEN Tried(RecordsOf(grandchildren, filepath, field_names),
                        Append(log, Printed("collection", grandchildren[1].tag,
                                            Len(grandchildren))))
             ELSE NestedCollectionScan(root, filepath, i + 1, field_names, log)

\* Strategy 3 of _extract_records_smart
RootCollectionScan(root, filepath, field_names, log) ==
    LET children == root.children
        child_tags == {children[i].tag : i \in DOMAIN children}
    IN  IF children # << >> /\ Cardinality(child_tags) = 1 /\ Len(children) > 1
        THEN Outcome(TRUE, RecordsOf(children, filepath, field_names),
                     Append(log, Printed("root-level", children[1].tag, Len(children))))
        ELSE Outcome(FALSE, NoRecords(field_names), log)

\* _extract_records_smart: [returned, records, field_names, log]
ExtractRecordsSmart(root, filepath, field_names, log) ==
    LET AfterNested(s2) ==
            IF s2.returned THEN s2
            ELSE RootCollectionScan(root, filepath, s2.field_names, s2.log)
        AfterKnownTag(s1) ==
            IF s1.returned THEN s1
            ELSE AfterNested(NestedCollectionScan(root, filepath, 1, s1.field_names, s1.log))
    IN  AfterKnownTag(KnownTagScan(root, filepath, 1, field_names, log))

\* What ET.parse(filepath) gives: a tree, or a ParseError
ParseError == [ok |-> FALSE]
Parsed(root) == [ok |-> TRUE, root |-> root]

\* EnsureSourceFile with the loop left out
EnsureSourceFileSkipped(records, filename) == records

\* the loop "for record in records: if 'source_file' not in record: ..."
EnsureSourceFile(records, filename) ==
    [i \in DOMAIN records |->
        IF "source_file" \notin DOMAIN records[i]
        THEN DictSet(records[i], "source_file", filename)
        ELSE records[i]]

\* "return records, len(records)" with the registry and the diagnostics of the call
Returned(records, field_names, log) ==
    [records |-> records, count |-> Len(records), field_names |-> field_names,
     log |-> Append(log, Printed("extracted", "", Len(records)))]

\* process_xml_file on the outcome of ET.parse: [records, count, field_names, log]
ProcessXmlFile(filepath, parse, field_names) ==
    IF ~parse.ok
    THEN [records |-> << >>, count |-> 0, field_names |-> field_names,
          log |-> <<Printed("parse-error", "", 0)>>]
    ELSE LET root == parse.root
             Labelled(r, log) ==
                 Returned(EnsureSourceFile(r.records, PathName(filepath)), r.field_names, log)
             OrFallback(smart) ==
                 IF smart.records = << >>
                 THEN Labelled(FlattenNestedRecords(root, "", EmptyDict, smart.field_names),
                               Append(smart.log, Printed("fallback", "", 0)))
                 ELSE Labelled(smart, smart.log)
         IN  OrFallback(ExtractRecordsSmart(root, filepath, field_names,
                                            <<Printed("processing", root.tag, 0)>>))

(***************************************************************************)
(* FieldRegistry.columnOrder and TableWriter: save_to_csv                  *)
(***************************************************************************)

\* the smallest string of a non-empty set
MinStr(S) == CHOOSE x \in S : \A y \in S \ {x} : StrLess(x, y)

\* sorted(list(S))
RECURSIVE SortedList(_)
SortedList(S) ==
    IF S = {} THEN << >> ELSE <<MinStr(S)>> \o SortedList(S \ {MinStr(S)})

\* x in lst
InList(lst, x) == \E i \in DOMAIN lst : lst[i] = x

\* ListRemove with "sorted_fields.remove(field)" left out
ListRemoveNothing(lst, x) == lst

\* lst.remove(x): the first occurrence of x removed
ListRemove(lst, x) ==
    LET i == CHOOSE k \in DOMAIN lst : lst[k] = x /\ \A j \in 1..(k - 1) : lst[j] # x
    IN  SubSeq(lst, 1, i - 1) \o SubSeq(lst, i + 1, Len(lst))

priority_fields ==
    <<"source_file",
      "Route", "RouteID", "LineID", "LineName", "Line",
      "FromStop", "ToStop", "StopID", "StopName", "Station", "Stop",
      "AnnotatedStopPointRef", "CommonName", "Indicator", "LocalityName", "StopPointRef",
      "Lat", "Latitude", "Lon", "Longitude", "Coordinates",
      "Runtime", "Duration", "TravelTime", "Time", "Departure", "Arrival",
      "Timestamp", "Date", "Time",
      "Direction", "Sequence",
      "Operator", "Company", "Provider">>

\* the loop "for field in priority_fields" of save_to_csv from its i-th turn on,
\* then "ordered_fields.extend(sorted_fields)"
RECURSIVE BuildColumnOrder(_, _, _)
BuildColumnOrder(i, ordered_fields, sorted_fields) ==
    IF i > Len(priority_fields) THEN ordered_fields \o sorted_fields
    ELSE LET field == priority_fields[i]
         IN  IF InList(sorted_fields, field)
             THEN BuildColumnOrder(i + 1, Append(ordered_fields, field),
                                   ListRemove(sorted_fields, field))
             ELSE BuildColumnOrder(i + 1, ordered_fields, sorted_fields)

\* the column list of save_to_csv for the registry fields
ColumnOrder(fields) == BuildColumnOrder(1, << >>, SortedList(fields))

\* Path(name).stem: the name without its last suffix
Stem(name) ==
    LET parts == Split(name, ".")
        Join(acc, part) == acc \o "." \o part
    IN  IF Len(parts) = 1 THEN name
        ELSE FoldLeft(Join, parts[1], SubSeq(parts, 2, Len(parts) - 1))

\* s.endswith(p)
EndsWith(s, p) == Len(p) <= Len(s) /\ SubSeq(s, Len(s) - Len(p) + 1, Len(s)) = p

\* the output path of save_to_csv(None)
OutputPath(xml_folder, files) ==
    LET auto == IF Len(files) = 1 THEN Stem(PathName(files[1])) \o "_converted.csv"
                ELSE "bus_data_combined.csv"
        output_file == IF ~EndsWith(auto, ".csv") THEN auto \o ".csv" ELSE auto
    IN  xml_folder \o "/" \o output_file

\* csv.DictWriter.writerow: the cells of a row under the header, "" where absent
CsvLine(fieldnames, row) ==
    [i \in DOMAIN fieldnames |->
        IF fieldnames[i] \in DOMAIN row THEN row[fieldnames[i]] ELSE ""]

\* DictWriter raises ValueError on a row with a key that is no column
RowFits(fieldnames, row) == \A k \in DOMAIN row : InList(fieldnames, k)

NoCsv == [status |-> "none", path |-> "", header |-> << >>, lines |-> << >>]

\* the file save_to_csv leaves behind when open() succeeds: writerows stops at the
\* first row that does not fit
WriteCsv(path, fieldnames, rows) ==
    LET bad == {i \in DOMAIN rows : ~RowFits(fieldnames, rows[i])}
        n == IF bad = {} THEN Len(rows)
             ELSE (CHOOSE i \in bad : \A j \in bad : i <= j) - 1
    IN  [status |-> IF bad = {} THEN "complete" ELSE "partial",
         path   |-> path,
         header |-> fieldnames,
         lines  |-> [i \in 1..n |-> CsvLine(fieldnames, rows[i])]]

(***************************************************************************)
(* Inputs: XML documents and file lists                                    *)
(***************************************************************************)

\* an element
E(tag, attrib, text, children) ==
    [tag |-> tag, attrib |-> attrib, text |-> text, children |-> children]

\* the largest number of elements of a document given to process_xml_file alone
MaxNodes == 4

\* the largest number of files find_xml_files returns
MaxFiles == 2

\* what an element of the generated documents carries: tag, attributes, text
ElementKinds ==
    { [tag |-> "Journey", attrib |-> << >>,                   text |-> ""],
      [tag |-> "Journey", attrib |-> << <<"ref", "J">> >>,    text |-> " "],
      [tag |-> "Leg",     attrib |-> << <<"id", "1">> >>,     text |-> ""],
      [tag |-> "Leg",     attrib |-> << >>,                   text |-> " 7 "],
      [tag |-> "Leg",     attrib |-> << >>,                   text |-> " "],
      [tag |-> "{u}Leg",  attrib |-> << <<"{u}id", "2">> >>,  text |-> ""] }

\* the trees of exactly n elements, and the sequences of trees of k elements in all
RECURSIVE TreesOfSize(_), ForestsOfSize(_)
TreesOfSize(n) ==
    { E(kind.tag, kind.attrib, kind.text, f) :
        kind \in ElementKinds, f \in ForestsOfSize(n - 1) }
ForestsOfSize(k) ==
    IF k = 0 THEN { << >> }
    ELSE UNION { { <<t>> \o f : t \in TreesOfSize(j), f \in ForestsOfSize(k - j) } :
                 j \in 1..k }

\* every outcome of ET.parse on one file of n elements
InputsOfSize(n) == { Parsed(root) : root \in TreesOfSize(n) }

\* The documents read in a run over several files
Stop(id, name) == E("Stop", << <<"id", id>>, <<"name", name>> >>, "", << >>)
ThreeStops == E("Stops", << >>, " ", << Stop("1", "A"), Stop("2", "B"), Stop("3", "") >>)
OneJourneyTwoLegs ==
    E("data", << >>, "",
      << E("Journey", << <<"ref", "J1">> >>, "",
           << E("Leg", << <<"n", "1">> >>, "", << >>),
              E("Leg", << >>, " 12 ", << >>) >>) >>)
OneJourneyOneLeg ==
    E("data", << >>, "",
      << E("Journey", << >>, "", << E("Leg", << <<"n", "1">> >>, "late", << >>) >>) >>)
NamespacedTimes ==
    E("{u}data", << >>, "",
      << E("{u}Time", << >>, "0900", << >>), E("{u}Time", << >>, "0930", << >>) >>)
NestedCollection ==
    E("data", << <<"v", "2">> >>, "",
      << E("Operator", << >>, "ACME", << >>),
         E("Lines", << >>, "",
           << E("Line", << <<"id", "7">> >>, "", << E("Name", << >>, "North", << >>) >>),
              E("Line", << >>, "", << >>) >>) >>)
SourceFileTags ==
    E("data", << >>, "",
      << E("source_file", << <<"id", "">> >>, "x", << >>),
         E("source_file", << >>, "y", << >>) >>)
EmptyRoot == E("data", << >>, "", << >>)
BlankChain == E("data", << >>, " ", << E("Journey", << >>, "  ", << >>) >>)

SampleDocuments ==
    { ThreeStops, OneJourneyTwoLegs, OneJourneyOneLeg, NamespacedTimes, NestedCollection,
      SourceFileTags, EmptyRoot, BlankChain }

SampleInputs == { Parsed(root) : root \in SampleDocuments } \cup { ParseError }

\* the i-th path of find_xml_files
FilePath(i) == "data/" \o CharAt("abcdefghij", i) \o ".xml"

(***************************************************************************)
(* The conversion run: main, process_all_files, save_to_csv                *)
(***************************************************************************)

VARIABLES
    pc,              \* where main is: start, loop, return, done
    source_files,    \* self.source_files
    idx,             \* the position of process_all_files in xml_files
    parsed,          \* what ET.parse gave for each file processed so far
    extracted_data,  \* self.extracted_data
    field_names,     \* self.field_names
    total_records,   \* total_records of process_all_files
    log,             \* the diagnostics printed by the last process_xml_file
    csv,             \* the CSV file on disk
    writes           \* how many times the CSV file has been written

vars == <<pc, source_files, idx, parsed, extracted_data, field_names, total_records,
          log, csv, writes>>

xml_folder == "data"

\* __init__, before main has looked at the input path
Init ==
    /\ pc = "start"
    /\ source_files = << >>
    /\ idx = 1
    /\ parsed = << >>
    /\ extracted_data = << >>
    /\ field_names = {"source_file"}
    /\ total_records = 0
    /\ log = << >>
    /\ csv = NoCsv
    /\ writes = 0

\* main: the input path is neither a ZIP file nor a folder
NotFound ==
    /\ pc = "start"
    /\ pc' = "done"
    /\ UNCHANGED <<source_files, idx, parsed, extracted_data, field_names, total_records,
                   log, csv, writes>>

\* main, folder branch: the converter is built and process_all_files finds the files
FindXmlFiles ==
    /\ pc = "start"
    /\ \E n \in 0..MaxFiles :
          /\ source_files' = [i \in 1..n |-> FilePath(i)]
          /\ pc' = IF n = 0 THEN "return" ELSE "loop"
    /\ UNCHANGED <<idx, parsed, extracted_data, field_names, total_records, log, csv,
                   writes>>

\* "self.extracted_data.extend(records); total_records += count"
Extend(parse, r) ==
    /\ parsed' = Append(parsed, parse)
    /\ extracted_data' = extracted_data \o r.records
    /\ field_names' = r.field_names
    /\ total_records' = total_records + r.count
    /\ log' = r.log

\* ProcessFileFrom with the ParseError of a file left uncaught: it ends the run
ProcessFileFromAborting(inputs) ==
    /\ pc = "loop"
    /\ idx <= Len(source_files)
    /\ \E parse \in inputs :
          /\ Extend(parse, ProcessXmlFile(source_files[idx], parse, field_names))
          /\ idx' = IF parse.ok THEN idx + 1 ELSE idx
          /\ pc' = IF ~parse.ok THEN "done"
                   ELSE IF idx = Len(source_files) THEN "return" ELSE "loop"
    /\ UNCHANGED <<source_files, csv, writes>>

\* ProcessFileFrom writing the rows gathered so far to the CSV file after each file
ProcessFileFromSaving(inputs) ==
    /\ pc = "loop"
    /\ idx <= Len(source_files)
    /\ \E parse \in inputs :
          Extend(parse, ProcessXmlFile(source_files[idx], parse, field_names))
    /\ idx' = idx + 1
    /\ pc' = IF idx = Len(source_files) THEN "return" ELSE "loop"
    /\ csv' = [status |-> "complete", path |-> "data/bus_data_combined.csv",
               header |-> SortedList(field_names'), lines |-> << >>]
    /\ writes' = writes + 1
    /\ UNCHANGED source_files

\* one turn of the loop of process_all_files, ET.parse giving one of inputs
ProcessFileFrom(inputs) ==
    /\ pc = "loop"
    /\ idx <= Len(source_files)
    /\ \E parse \in inputs :
          Extend(parse, ProcessXmlFile(source_files[idx], parse, field_names))
    /\ idx' = idx + 1
    /\ pc' = IF idx = Len(source_files) THEN "return" ELSE "loop"
    /\ UNCHANGED <<source_files, csv, writes>>

ProcessNextFile == ProcessFileFrom(SampleInputs)

\* save_to_csv(None); io_ok: open() succeeds
SaveToCsv(io_ok) ==
    IF extracted_data = << >>
    THEN UNCHANGED <<extracted_data, csv, writes>>
    ELSE /\ extracted_data' = EnsureSourceFile(extracted_data, "unknown")
         /\ IF io_ok
            THEN /\ csv' = WriteCsv(OutputPath(xml_folder, source_files),
                                    ColumnOrder(field_names), extracted_data')
                 /\ writes' = writes + 1
            ELSE UNCHANGED <<csv, writes>>

\* main after process_all_files has returned record_count
Finish ==
    /\ pc = "return"
    /\ IF total_records > 0
       THEN \E io_ok \in BOOLEAN : SaveToCsv(io_ok)
       ELSE UNCHANGED <<extracted_data, csv, writes>>
    /\ pc' = "done"
    /\ UNCHANGED <<source_files, idx, parsed, field_names, total_records, log>>

Next == NotFound \/ FindXmlFiles \/ ProcessNextFile \/ Finish

Spec == Init /\ [][Next]_vars

(***************************************************************************)
(* process_xml_file alone, on every document of at most MaxNodes elements  *)
(***************************************************************************)

InitFile ==
    /\ pc = "loop"
    /\ source_files = <<FilePath(1)>>
    /\ idx = 1
    /\ parsed = << >>
    /\ extracted_data = << >>
    /\ field_names = {"source_file"}
    /\ total_records = 0
    /\ log = << >>
    /\ csv = NoCsv
    /\ writes = 0

\* process_xml_file on a file that does not parse, or holds any document
ProcessAnyFile ==
    \/ ProcessFileFrom({ParseError})
    \/ \E n \in 1..MaxNodes : ProcessFileFrom(InputsOfSize(n))

NextFile == ProcessAnyFile

SpecFile == InitFile /\ [][NextFile]_vars


(***************************************************************************)
(* save_to_csv alone, on every registry drawn from FieldUniverse           *)
(***************************************************************************)

\* keys a run can register: bare tags of record roots that carry text, attribute keys
FieldUniverse ==
    {"Time", "Date", "Route", "Provider", "Zone", "leg", "Leg_@id", "Leg.@id"}

\* one row per registered key, as record roots of that tag with text give them
RowsFor(fields) ==
    LET keys == SortedList(fields \ {"source_file"})
    IN  [i \in DOMAIN keys |-> (keys[i] :> "v") @@ ("source_file" :> "a.xml")]

\* process_all_files has returned: the registry holds any keys of FieldUniverse
InitColumns ==
    /\ pc = "return"
    /\ source_files = <<FilePath(1)>>
    /\ idx = 2
    /\ parsed = << >>
    /\ \E S \in SUBSET FieldUniverse :
          /\ field_names = {"source_file"} \cup S
          /\ extracted_data = RowsFor(S)
          /\ total_records = Cardinality(S)
    /\ log = << >>
    /\ csv = NoCsv
    /\ writes = 0

NextColumns == Finish

SpecColumns == InitColumns /\ [][NextColumns]_vars


(***************************************************************************)
(* process_xml_file alone, on documents whose root holds groups of leaves  *)
(***************************************************************************)

\* the largest number of children of root in these documents
MaxGroups == 2

\* the largest number of children of a child of root in these documents
MaxMembers == 2

\* the leaves of a group: a known tag with content, a tag without content, and the
\* same local tag in a namespace with content
MemberKinds ==
    { E("Stop",    << <<"id", "3">> >>,    "", << >>),
      E("Item",    << >>,                  "", << >>),
      E("{u}Item", << <<"{u}id", "2">> >>, "", << >>) }

\* the sequences of n elements of S
RECURSIVE SeqsOf(_, _)
SeqsOf(S, n) ==
    IF n = 0 THEN { << >> } ELSE { <<x>> \o s : x \in S, s \in SeqsOf(S, n - 1) }

\* the children of root: elements without content that hold up to MaxMembers leaves
Groups ==
    { E("group", << >>, "", members) :
        members \in UNION { SeqsOf(MemberKinds, n) : n \in 0..MaxMembers } }

\* every outcome of ET.parse on a file whose root holds n groups
NestedInputs(n) == { Parsed(E("data", << >>, "", groups)) : groups \in SeqsOf(Groups, n) }

\* process_xml_file on any such document
ProcessNestedFile == \E n \in 1..MaxGroups : ProcessFileFrom(NestedInputs(n))

NextNested == ProcessNestedFile

SpecNested == InitFile /\ [][NextNested]_vars


(***************************************************************************)
(* Properties                                                              *)
(***************************************************************************)

\* the keys of the rows gathered so far
RowKeys == UNION { DOMAIN extracted_data[i] : i \in DOMAIN extracted_data }

\* some row holds key
SomeRowHas(key) == \E i \in DOMAIN extracted_data : key \in DOMAIN extracted_data[i]

\* the last process_xml_file printed event
LogHas(event) == \E i \in DOMAIN log : log[i].event = event

\* C1: at every point of a run over any list of files (parsed or not, rows from a
\* record strategy or from the fallback) every key of every row of extracted_data is
\* in field_names, and the header written by save_to_csv holds every key of every row.
C1_RowKeysRegistered ==
    /\ RowKeys \subseteq field_names
    /\ csv.status # "none" =>
          /\ csv.status = "complete"
          /\ \A k \in RowKeys : InList(csv.header, k)

\* C1 witness: a finished run over two files, one handled by the known-tag scan and
\* one by the fallback, whose CSV file is written
C1_Witness ==
    /\ pc = "done"
    /\ csv.status = "complete"
    /\ Len(parsed) = 2
    /\ SomeRowHas("Stop_@id")
    /\ SomeRowHas("Leg.value")

\* C2: every row of extracted_data has the key source_file with a non-empty value.
C2_SourceFileNonEmpty ==
    \A i \in DOMAIN extracted_data :
        /\ "source_file" \in DOMAIN extracted_data[i]
        /\ extracted_data[i]["source_file"] # ""

\* C2 witness: rows of a record strategy and rows of the fallback side by side, one
\* of them with source_file overwritten by the text of a source_file element
C2_Witness ==
    /\ Len(parsed) = 2
    /\ SomeRowHas("source_file_@id")
    /\ SomeRowHas("Leg.value")
    /\ \E i \in DOMAIN extracted_data : extracted_data[i]["source_file"] = "x"
    /\ \E i \in DOMAIN extracted_data : extracted_data[i]["source_file"] = "b.xml"

\* the rows file i gives: none when it did not parse
Contribution(i) ==
    IF parsed[i].ok
    THEN ProcessXmlFile(source_files[i], parsed[i], {"source_file"}).records
    ELSE << >>

\* the rows of the first n files, in file order
RECURSIVE ContributionsUpTo(_)
ContributionsUpTo(n) ==
    IF n = 0 THEN << >> ELSE ContributionsUpTo(n - 1) \o Contribution(n)

\* C6: process_all_files goes through every file of the list whatever fails to parse:
\* files 1..idx-1 have been read, the loop ends only past the last file, a file that
\* failed to parse adds no row, and extracted_data is the concatenation in file order
\* of the rows of the files that parsed.
C6_EveryFileProcessed ==
    /\ pc \in {"loop", "return"} => Len(parsed) = idx - 1
    /\ pc = "loop" => idx <= Len(source_files)
    /\ pc = "return" => Len(parsed) = Len(source_files)
    /\ pc = "done" => Len(parsed) = Len(source_files)
    /\ Len(parsed) <= Len(source_files)
    /\ extracted_data = ContributionsUpTo(Len(parsed))

\* C6 witness: Scenario D, a file that does not parse followed by one that does
C6_Witness ==
    /\ pc = "done"
    /\ Len(parsed) = 2
    /\ ~parsed[1].ok
    /\ parsed[2].ok
    /\ extracted_data # << >>
    /\ \A i \in DOMAIN extracted_data : extracted_data[i]["source_file"] = "b.xml"

\* C7: the CSV file is written at most once, never before main is past the last file
\* of the list, and never when no file was found or no row was extracted.
C7_CsvWrittenOnceAtEnd ==
    /\ writes <= 1
    /\ (writes = 0) = (csv = NoCsv)
    /\ pc # "done" => writes = 0
    /\ writes = 1 =>
          /\ source_files # << >>
          /\ Len(parsed) = Len(source_files)
          /\ extracted_data # << >>

\* C7 witness: the file is written after two files were processed
C7_Witness ==
    /\ pc = "done"
    /\ writes = 1
    /\ Len(source_files) = 2
    /\ csv.status = "complete"
    /\ Len(csv.lines) = Len(extracted_data)


\* the names of the priority list
PriorityNames == { priority_fields[i] : i \in DOMAIN priority_fields }

\* where name first stands in the priority list
PriorityRank(name) ==
    CHOOSE i \in DOMAIN priority_fields :
        priority_fields[i] = name /\ \A j \in 1..(i - 1) : priority_fields[j] # name

\* C3: the column list save_to_csv writes is the registered names of the priority
\* list, each once and in the order of their first place in that list, followed by
\* the other registered names in ascending code-point order; it has no duplicates
\* and is a permutation of field_names.
C3_ColumnOrder ==
    csv.status # "none" =>
        LET h == csv.header
        IN  /\ \A i, j \in DOMAIN h : h[i] = h[j] => i = j
            /\ { h[i] : i \in DOMAIN h } = field_names
            /\ Len(h) = Cardinality(field_names)
            /\ \E k \in 0..Len(h) :
                  /\ \A i \in 1..k : h[i] \in PriorityNames
                  /\ \A i \in (k + 1)..Len(h) : h[i] \notin PriorityNames
                  /\ \A i, j \in 1..k : i < j => PriorityRank(h[i]) < PriorityRank(h[j])
                  /\ \A i, j \in (k + 1)..Len(h) : i < j => StrLess(h[i], h[j])

\* C3 witness: a header written for a registry holding Time (listed twice), Date
\* (listed between the two places of Time) and names outside the priority list
C3_Witness ==
    /\ csv.status = "complete"
    /\ {"Time", "Date", "Route", "Zone", "leg", "Leg_@id", "Leg.@id"} \subseteq field_names
    /\ csv.header = <<"source_file", "Route", "Time", "Date", "Leg.@id", "Leg_@id",
                      "Zone", "leg">>


\* process_xml_file has been applied to one file that parsed
Processed == Len(parsed) = 1 /\ parsed[1].ok

\* the tree of that file
Doc == parsed[1].root

\* root and everything below it, in document order
Elements(root) == <<root>> \o Descendants(root)

\* the element carries non-whitespace text
HasText(e) == \E i \in 1..Len(e.text) : CharAt(e.text, i) # " "

\* the element carries an attribute or non-whitespace text
HasContent(e) == e.attrib # << >> \/ HasText(e)

\* some element of the tree under e carries an attribute or non-whitespace text
SubtreeHasContent(e) == \E i \in DOMAIN Elements(e) : HasContent(Elements(e)[i])

\* some element without children carries an attribute or non-whitespace text
HasContentLeaf(root) ==
    \E i \in DOMAIN Elements(root) :
        Elements(root)[i].children = << >> /\ HasContent(Elements(root)[i])

DataKeys(i) == DOMAIN extracted_data[i] \ {"source_file"}

\* Scenario B: root has one child, a Journey, and everything below it is a Leg
ScenarioB(root) ==
    /\ Len(root.children) = 1
    /\ root.children[1].tag = "Journey"
    /\ Descendants(root.children[1]) # << >>
    /\ \A i \in DOMAIN Descendants(root.children[1]) :
          Descendants(root.children[1])[i].tag = "Leg"

\* the Leg elements of the tree under root
Legs(root) == SelectSeq(Descendants(root), LAMBDA e : e.tag = "Leg")

\* C8 as stated: a Scenario B document is handled by the fallback, gives at least one
\* row, and its keys are dotted
C8_Original ==
    (Processed /\ ScenarioB(Doc)) =>
        /\ LogHas("fallback")
        /\ Len(extracted_data) >= 1
        /\ \A i \in DOMAIN extracted_data : \A k \in DataKeys(i) : Contains(k, ".")

\* C8, amended: in Scenario B, when the Journey holds two or more Leg elements of
\* which one at least has content, the known-tag scan succeeds on Leg: one row per Leg
\* with content beneath it, keys in the underscore scheme starting with Leg, no
\* fallback.  Otherwise (a single Leg, or no Leg with content) no strategy succeeds and
\* the fallback produces the rows: the keys are dotted (Leg.@attr, Leg.value), and
\* there is at least one row exactly when some element of the document has content.
C8_ScenarioB ==
    (Processed /\ ScenarioB(Doc)) =>
        IF Len(Legs(Doc)) >= 2 /\ \E i \in DOMAIN Legs(Doc) : SubtreeHasContent(Legs(Doc)[i])
        THEN /\ log[2] = Printed("found", "Leg", Len(Legs(Doc)))
             /\ ~LogHas("fallback")
             /\ Len(extracted_data) = Len(SelectSeq(Legs(Doc), SubtreeHasContent))
             /\ \A i \in DOMAIN extracted_data : \A k \in DataKeys(i) :
                   StartsWith(k, "Leg") /\ ~Contains(k, ".")
        ELSE /\ LogHas("fallback")
             /\ ~LogHas("root-level")
             /\ (Len(extracted_data) >= 1) = SubtreeHasContent(Doc)
             /\ \A i \in DOMAIN extracted_data : \A k \in DataKeys(i) :
                   Contains(k, ".") /\ ~Contains(k, "_")

\* C8 witness: one Journey with a single Leg, rows from the fallback with dotted keys
C8_Witness ==
    /\ Processed
    /\ ScenarioB(Doc)
    /\ Len(Legs(Doc)) = 1
    /\ LogHas("fallback")
    /\ SomeRowHas("Leg.@id")

\* the descendants of root whose namespace-stripped tag is pattern
LocalMatches(root, pattern) ==
    SelectSeq(Descendants(root), LAMBDA e : StripNamespace(e.tag) = pattern)

\* the first of journey_patterns with more than one such descendant, 0 when none
FirstRepeated(root) ==
    IF \E i \in DOMAIN journey_patterns : Len(LocalMatches(root, journey_patterns[i])) > 1
    THEN CHOOSE i \in DOMAIN journey_patterns :
            /\ Len(LocalMatches(root, journey_patterns[i])) > 1
            /\ \A j \in 1..(i - 1) : Len(LocalMatches(root, journey_patterns[j])) <= 1
    ELSE 0

\* C9: the known-tag scan takes the first tag of journey_patterns that more than one
\* element at any depth bears as its namespace-stripped tag; every such element is a
\* record root, and no later tag of the list is examined.
C9_KnownTagScan ==
    (Processed /\ FirstRepeated(Doc) # 0) =>
        LET pattern == journey_patterns[FirstRepeated(Doc)]
            matches == LocalMatches(Doc, pattern)
        IN  /\ log[2] = Printed("found", pattern, Len(matches))
            /\ \A i \in DOMAIN log : log[i].event = "found" => log[i].tag = pattern
            /\ (\E i \in DOMAIN matches : SubtreeHasContent(matches[i])) =>
                  /\ ~LogHas("fallback")
                  /\ Len(extracted_data) = Len(SelectSeq(matches, SubtreeHasContent))


\* the keys of the elements of the tree under e, path being the namespace-stripped
\* tags from the record root down to the parent of e, each followed by "_"
RECURSIVE KeysUnder(_, _)
KeysUnder(e, path) ==
    LET here == path \o StripNamespace(e.tag)
    IN  { here \o "_@" \o StripNamespace(e.attrib[i][1]) : i \in DOMAIN e.attrib }
        \cup (IF HasText(e) THEN {here} ELSE {})
        \cup UNION { KeysUnder(e.children[i], here \o "_") : i \in DOMAIN e.children }

\* the rows come from a record strategy
RecordMode == Processed /\ extracted_data # << >> /\ ~LogHas("fallback")

\* the diagnostic of the strategy that returned the rows
Success == log[Len(log) - 1]

\* the lists of record roots that diagnostic can stand for
RootLists ==
    IF Success.event = "found" THEN { FindAll(Doc, Success.tag) }
    ELSE IF Success.event = "root-level" THEN { Doc.children }
    ELSE { Doc.children[i].children : i \in DOMAIN Doc.children }

\* a record root whose record holds more than the file name
GivesRow(e) == KeysUnder(e, "") \ {"source_file"} # {}

\* C10 as stated: the tag of the record root is left out of the keys, so a record root
\* without children (all its keys come from its own attributes and text) has no key
\* that starts with its tag
C10_Original ==
    RecordMode =>
        \E roots \in RootLists :
            /\ Len(SelectSeq(roots, GivesRow)) = Len(extracted_data)
            /\ \A i \in DOMAIN extracted_data :
                  LET e == SelectSeq(roots, GivesRow)[i]
                  IN  e.children = << >> =>
                         \A k \in DataKeys(i) : ~StartsWith(k, StripNamespace(e.tag))

\* C10, amended: in record-root mode the keys of a row, source_file apart, are exactly
\* the '_'-joined namespace-stripped tags from the record root itself down to the
\* element (followed by "_@" and the attribute name for an attribute): the tag of the
\* record root is the first component of every key, also of the keys of its own
\* attributes and text.
C10_RecordKeys ==
    RecordMode =>
        \E roots \in RootLists :
            /\ Len(SelectSeq(roots, GivesRow)) = Len(extracted_data)
            /\ \A i \in DOMAIN extracted_data :
                  LET e == SelectSeq(roots, GivesRow)[i]
                  IN  /\ DOMAIN extracted_data[i] = KeysUnder(e, "") \cup {"source_file"}
                      /\ \A k \in DataKeys(i) : StartsWith(k, StripNamespace(e.tag))

\* C10 witness: a record root with an attribute and a child with text: the keys of
\* both start with the tag of the record root
C10_Witness ==
    /\ RecordMode
    /\ Success.event = "found"
    /\ \E i \in DOMAIN extracted_data : DataKeys(i) = {"Leg_@id", "Leg_Leg"}

\* the diagnostics of the nested-collection scan, in the order they were printed
CollectionEvents == SelectSeq(log, LAMBDA l : l.event = "collection")

\* the rows were returned by the known-tag scan
KnownTagSucceeded == RecordMode /\ Success.event = "found"

\* the rows were returned by the nested-collection scan
NestedSucceeded == RecordMode /\ Success.event = "collection"

\* child has more than one child and they all bear the same namespace-stripped tag
SameLocalTag(child) ==
    /\ Len(child.children) > 1
    /\ \A i, j \in DOMAIN child.children :
          StripNamespace(child.children[i].tag) = StripNamespace(child.children[j].tag)

\* child has more than one child and they all bear the same tag, namespace included
SameFullTag(child) ==
    /\ Len(child.children) > 1
    /\ \A i, j \in DOMAIN child.children : child.children[i].tag = child.children[j].tag

\* some child of child gives a record that holds more than the file name
Productive(child) == \E i \in DOMAIN child.children : GivesRow(child.children[i])

\* the children of root that qualify by their children's full tags, in document order
Collections(root) == SelectSeq(root.children, SameFullTag)

\* those of them the scan examines: up to and including the first productive one
Examined(root) ==
    LET cs == Collections(root)
    IN  IF \E i \in DOMAIN cs : Productive(cs[i])
        THEN SubSeq(cs, 1, CHOOSE i \in DOMAIN cs :
                              Productive(cs[i]) /\ \A j \in 1..(i - 1) : ~Productive(cs[j]))
        ELSE cs

RECURSIVE LeafChains(_, _)
LeafChains(e, above) ==
    LET Add(acc, child) == acc \o LeafChains(child, Append(above, e))
    IN  IF e.children = << >> THEN << Append(above, e) >>
        ELSE FoldLeft(Add, << >>, e.children)

\* the key the fallback gives the i-th attribute of e
OwnAttrKey(e, i) == StripNamespace(e.tag) \o ".@" \o StripNamespace(e.attrib[i][1])

\* the key the fallback gives the text of e
OwnTextKey(e) == StripNamespace(e.tag) \o ".value"

\* the fields e itself contributes in the fallback
OwnKeys(e) ==
    { OwnAttrKey(e, i) : i \in DOMAIN e.attrib } \cup (IF HasText(e) THEN {OwnTextKey(e)} ELSE {})

\* the value e contributes for key k: its stripped text, or the last attribute of that key
OwnValue(e, k) ==
    IF HasText(e) /\ k = OwnTextKey(e) THEN StrStrip(e.text)
    ELSE LET last == CHOOSE i \in DOMAIN e.attrib :
                        /\ OwnAttrKey(e, i) = k
                        /\ \A j \in DOMAIN e.attrib : OwnAttrKey(e, j) = k => j <= i
         IN  e.attrib[last][2]

\* the fields contributed by the elements of a chain
ChainKeys(chain) == UNION { OwnKeys(chain[j]) : j \in DOMAIN chain }

\* the value of k along a chain: that of the contributing element nearest the leaf
ChainValue(chain, k) ==
    LET nearest == CHOOSE j \in DOMAIN chain :
                      /\ k \in OwnKeys(chain[j])
                      /\ \A m \in DOMAIN chain : k \in OwnKeys(chain[m]) => m <= j
    IN  OwnValue(chain[nearest], k)

\* the leaves whose chain contributes a field, as chains, in document order
EmittingChains(root) == SelectSeq(LeafChains(root, << >>), LAMBDA c : ChainKeys(c) # {})

\* C12: in the fallback flatten there is one row per leaf whose chain from the root
\* contributes a field, in document order; the row holds exactly the fields of the
\* leaf and of its ancestors, the element nearest the leaf winning a key collision,
\* and nothing from a sibling or any element outside the chain (source_file, which
\* process_xml_file adds afterwards, apart).
C12_BranchIsolation ==
    (Processed /\ LogHas("fallback")) =>
        /\ Len(extracted_data) = Len(EmittingChains(Doc))
        /\ \A i \in DOMAIN extracted_data :
              /\ DataKeys(i) = ChainKeys(EmittingChains(Doc)[i])
              /\ \A k \in DataKeys(i) :
                    extracted_data[i][k] = ChainValue(EmittingChains(Doc)[i], k)
              /\ "source_file" \in DOMAIN extracted_data[i]

\* C12 witness: two sibling leaves under a root with an attribute: each row holds the
\* root's field and its own leaf's field, and not its sibling's
C12_Witness ==
    /\ Processed
    /\ LogHas("fallback")
    /\ Len(extracted_data) = 2
    /\ DataKeys(1) = {"Journey.@ref", "Leg.value"}
    /\ DataKeys(2) = {"Journey.@ref", "Leg.@id"}
    /\ extracted_data[2]["Leg.@id"] = "2"


====
